---- MODULE Spec2Model ----
(***************************************************************************)
(* Model of update_and_extract_new.py: one run of main() is a sequence of  *)
(* steps (file reads, the HEAD probe, the GET download, the three file     *)
(* writes, the git commit), each step one action.  Texts are sequences of  *)
(* one-character strings, so that splitlines/strip/int/str are modelled by *)
(* what they do to the characters.                                         *)
(***************************************************************************)
EXTENDS Integers, Sequences, FiniteSets, TLC

\* Largest epoch second a Last-Modified header carries in the model.
MaxEpoch == 2

Epochs == 0..MaxEpoch

----------------------------------------------------------------------------
\* Optional values (Python's None).

None == [some |-> FALSE, v |-> 0]

Some(x) == [some |-> TRUE, v |-> x]

\* Python truthiness of an optional integer: None and 0 are falsy.
Truthy(o) == o.some /\ o.v # 0

----------------------------------------------------------------------------
\* Characters.

Ord(c) ==
    CASE c = "\t" -> 9
      [] c = "\n" -> 10
      [] c = "\r" -> 13
      [] c = " " -> 32
      [] c = "#" -> 35
      [] c = "0" -> 48
      [] c = "1" -> 49
      [] c = "2" -> 50
      [] c = "3" -> 51
      [] c = "4" -> 52
      [] c = "5" -> 53
      [] c = "6" -> 54
      [] c = "7" -> 55
      [] c = "8" -> 56
      [] c = "9" -> 57
      [] c = "a" -> 97
      [] c = "b" -> 98
      [] c = "c" -> 99
      [] c = "x" -> 120

IsSpace(c) == c \in {" ", "\t", "\n", "\r"}

IsLineBreak(c) == c \in {"\n", "\r"}

IsDigit(c) == c \in {"0", "1", "2", "3", "4", "5", "6", "7", "8", "9"}

Digits == <<"0", "1", "2", "3", "4", "5", "6", "7", "8", "9">>

----------------------------------------------------------------------------
\* str.strip(): drop leading and trailing whitespace.

RECURSIVE LStrip(_)
LStrip(s) ==
    IF s # <<>> /\ IsSpace(Head(s)) THEN LStrip(Tail(s)) ELSE s

RECURSIVE RStrip(_)
RStrip(s) ==
    IF s # <<>> /\ IsSpace(s[Len(s)]) THEN RStrip(SubSeq(s, 1, Len(s) - 1)) ELSE s

Strip(s) == RStrip(LStrip(s))

\* str.splitlines(): break at \n, \r and \r\n (one break); no trailing
\* empty line after a final break.
RECURSIVE SplitFrom(_, _, _, _)
SplitFrom(s, i, cur, out) ==
    IF i > Len(s)
    THEN IF cur # <<>> THEN Append(out, cur) ELSE out
    ELSE IF s[i] = "\r" /\ i < Len(s) /\ s[i + 1] = "\n"
         THEN SplitFrom(s, i + 2, <<>>, Append(out, cur))
         ELSE IF IsLineBreak(s[i])
              THEN SplitFrom(s, i + 1, <<>>, Append(out, cur))
              ELSE SplitFrom(s, i + 1, Append(cur, s[i]), out)

SplitLines(s) == SplitFrom(s, 1, <<>>, <<>>)

\* parse_records with the comment filter left out.
ParseLoopKeepComments(lines, i, records) ==
    {Strip(lines[k]) : k \in 1..Len(lines)} \ {<<>>}

\* The loop of parse_records over the lines, accumulating the set.
RECURSIVE ParseLoop(_, _, _)
ParseLoop(lines, i, records) ==
    IF i > Len(lines)
    THEN records
    ELSE LET line == Strip(lines[i])
         IN  IF line # <<>> /\ line[1] # "#"
             THEN ParseLoop(lines, i + 1, records \cup {line})
             ELSE ParseLoop(lines, i + 1, records)

ParseRecords(content) ==
    IF content = <<>> THEN {} ELSE ParseLoop(SplitLines(content), 1, {})

----------------------------------------------------------------------------
\* sorted(records): ascending by code point, lexicographically.

RECURSIVE StrLess(_, _)
StrLess(s, t) ==
    IF t = <<>> THEN FALSE
    ELSE IF s = <<>> THEN TRUE
    ELSE IF Ord(Head(s)) < Ord(Head(t)) THEN TRUE
    ELSE IF Ord(Head(s)) > Ord(Head(t)) THEN FALSE
    ELSE StrLess(Tail(s), Tail(t))

RECURSIVE Sorted(_)
Sorted(S) ==
    IF S = {} THEN <<>>
    ELSE LET m == CHOOSE x \in S : \A y \in S \ {x} : StrLess(x, y)
         IN  <<m>> \o Sorted(S \ {m})

----------------------------------------------------------------------------
\* int(text) and str(int) on decimal text.

IntValid(s) ==
    LET t == Strip(s)
    IN  t # <<>> /\ \A k \in 1..Len(t) : IsDigit(t[k])

RECURSIVE DigitsValue(_, _)
DigitsValue(t, acc) ==
    IF t = <<>> THEN acc
    ELSE DigitsValue(Tail(t), acc * 10 + (Ord(Head(t)) - 48))

IntOf(s) == DigitsValue(Strip(s), 0)

RECURSIVE Str(_)
Str(n) ==
    IF n < 10 THEN <<Digits[n + 1]>> ELSE Str(n \div 10) \o <<Digits[(n % 10) + 1]>>

----------------------------------------------------------------------------
\* Text-mode read: universal newlines turn \r\n and \r into \n.

RECURSIVE UniversalNewlines(_)
UniversalNewlines(s) ==
    IF s = <<>> THEN <<>>
    ELSE IF Head(s) = "\r"
         THEN IF Len(s) > 1 /\ s[2] = "\n"
              THEN <<"\n">> \o UniversalNewlines(Tail(Tail(s)))
              ELSE <<"\n">> \o UniversalNewlines(Tail(s))
         ELSE <<Head(s)>> \o UniversalNewlines(Tail(s))

----------------------------------------------------------------------------
\* The Last-Modified response header: absent, an empty value, text that is
\* no date, or the HTTP date of an epoch second.

Hdr(kind, epoch) == [kind |-> kind, epoch |-> epoch]

Headers ==
    {Hdr("missing", 0), Hdr("empty", 0), Hdr("garbage", 0)}
        \cup {Hdr("date", e) : e \in Epochs}

EpochToHttpDate(epoch) == Hdr("date", epoch)

ParseHttpDate(h) ==
    IF h.kind \in {"missing", "empty"} THEN None
    ELSE IF h.kind = "date" THEN Some(h.epoch)
    ELSE None

\* check_last_modified after a successful HEAD: the header value, parsed.
CheckLastModifiedResult(h) ==
    IF h.kind \in {"missing", "empty"} THEN None
    ELSE LET e == ParseHttpDate(h)
         IN  IF ~Truthy(e) THEN None ELSE e

----------------------------------------------------------------------------
\* Texts the remote resource and the cache file hold.

E2EText == <<"a", "\n", "b", "\n", "#", " ", "c", "\n">>

Texts ==
    { <<>>,
      <<"a", "\n">>,
      E2EText,
      <<"b", "\r", "\n", " ", "a", "\n", "\n", "b">>,
      <<" ", "#", "c", "\n", "\n">>,
      <<"c", "\r", "b">> }

Remotes == [hdr : Headers, body : Texts]

\* Files: present or not, with their text.
NoFile == [exists |-> FALSE, data |-> <<>>]

File(text) == [exists |-> TRUE, data |-> text]

TsFiles ==
    {NoFile} \cup {File(Str(e)) : e \in Epochs}
        \cup {File(<<>>), File(<<"x">>), File(<<" ", "1", "\n">>)}

CacheFiles == {NoFile} \cup {File(t) : t \in Texts}

NoText == [some |-> FALSE, v |-> <<>>]

SomeText(t) == [some |-> TRUE, v |-> t]

\* Python truthiness of an optional text: None and "" are falsy.
TruthyText(o) == o.some /\ o.v # <<>>

NoReport ==
    [exists |-> FALSE, epoch |-> None, http |-> Hdr("unknown", 0),
     count |-> 0, records |-> <<>>, placeholder |-> FALSE]

\* The report save_new_records writes (the wall-clock line left out).
ReportOf(records, epoch) ==
    [exists |-> TRUE,
     epoch |-> epoch,
     http |-> IF Truthy(epoch) THEN EpochToHttpDate(epoch.v) ELSE Hdr("unknown", 0),
     count |-> Cardinality(records),
     records |-> Sorted(records),
     placeholder |-> (records = {})]

StaleReport == ReportOf({<<"x">>}, Some(1))

----------------------------------------------------------------------------
VARIABLES
    remote,                       \* the resource the server holds now
    tsFile, cacheFile, reportFile, \* last_modified.txt, cache, report
    pc,                           \* position of main()
    last_modified_epoch,          \* main's locals
    current_last_modified_epoch,
    current_content,
    new_records,
    outcome,                      \* how the last run ended
    commitResult,                 \* what commit_changes did in this run
    files0,                       \* the three files when the run started
    writes,                       \* files written in this run, in order
    getIssued,                    \* the GET was sent in this run
    probeRaised, getRaised,       \* a request of this run raised
    probedHdr,                    \* header the HEAD of this run answered
    contentLM,                    \* Last-Modified of the version the GET got
    cacheLM                       \* Last-Modified of the version in the cache

vars ==
    <<remote, tsFile, cacheFile, reportFile, pc, last_modified_epoch,
      current_last_modified_epoch, current_content, new_records, outcome,
      commitResult, files0, writes, getIssued, probeRaised, getRaised,
      probedHdr, contentLM, cacheLM>>

files == <<tsFile, cacheFile, reportFile>>

locals == <<last_modified_epoch, current_last_modified_epoch, current_content,
            new_records>>

ghosts == <<files0, writes, getIssued, probeRaised, getRaised, probedHdr,
            contentLM>>

Snapshot == [ts |-> tsFile, cache |-> cacheFile, report |-> reportFile]

InitRest ==
    /\ remote \in Remotes
    /\ pc = "idle"
    /\ last_modified_epoch = None
    /\ current_last_modified_epoch = None
    /\ current_content = NoText
    /\ new_records = {}
    /\ outcome = "none"
    /\ commitResult = "none"
    /\ files0 = Snapshot
    /\ writes = <<>>
    /\ getIssued = FALSE
    /\ probeRaised = FALSE
    /\ getRaised = FALSE
    /\ probedHdr = Hdr("missing", 0)
    /\ contentLM = None
    /\ cacheLM = None

\* The working directory holds whatever earlier runs, crashes or hands left.
Init ==
    /\ tsFile \in TsFiles
    /\ cacheFile \in CacheFiles
    /\ reportFile \in {NoReport, StaleReport}
    /\ InitRest

\* A fresh working directory: none of the three files exists.
InitFresh ==
    /\ tsFile = NoFile
    /\ cacheFile = NoFile
    /\ reportFile = NoReport
    /\ InitRest

----------------------------------------------------------------------------
\* load_last_modified
LoadLastModified(f) ==
    IF f.exists
    THEN IF IntValid(f.data) THEN Some(IntOf(f.data)) ELSE None
    ELSE None

\* load_cached_content
LoadCachedContent(f) ==
    IF f.exists THEN SomeText(UniversalNewlines(f.data)) ELSE NoText

\* main, line 188: the stored timestamp is the probed one.
UnchangedNever(stored, current) == FALSE

Unchanged(stored, current) == Truthy(stored) /\ stored = current

\* main, line 199: the download counts as failed.
DownloadFailedNever(content) == FALSE

DownloadFailed(content) == content = <<>>

\* main, lines 203-218: the new records of this run.
NewRecordsDiffOnFirstRun(content, previous) ==
    IF previous.some
    THEN ParseRecords(content) \ ParseRecords(previous.v)
    ELSE ParseRecords(content)

NewRecords(content, previous) ==
    IF TruthyText(previous)
    THEN ParseRecords(content) \ ParseRecords(previous.v)
    ELSE {}

\* save_cached_content: the text written to the cache file.
CacheDataStripped(content) == Strip(content)

CacheData(content) == content

\* save_last_modified: the text written to the timestamp file.
TsDataStored(stored, current) == Str(IF stored.some THEN stored.v ELSE 0)

TsData(stored, current) == Str(current.v)

\* main, lines 220-228: the order of the writes and the commit.
WriteOrderTsFirst == <<"save_report", "save_ts", "save_cache", "commit">>

WriteOrder == <<"save_report", "save_cache", "save_ts", "commit">>

After(p) ==
    LET i == CHOOSE k \in 1..Len(WriteOrder) : WriteOrder[k] = p
    IN  WriteOrder[i + 1]

----------------------------------------------------------------------------
\* main, line 178: a run starts by reading the stored timestamp.
Start ==
    /\ pc \in {"idle", "done"}
    /\ pc' = "check"
    /\ last_modified_epoch' = LoadLastModified(tsFile)
    /\ current_last_modified_epoch' = None
    /\ current_content' = NoText
    /\ new_records' = {}
    /\ outcome' = "running"
    /\ commitResult' = "none"
    /\ files0' = Snapshot
    /\ writes' = <<>>
    /\ getIssued' = FALSE
    /\ probeRaised' = FALSE
    /\ getRaised' = FALSE
    /\ probedHdr' = Hdr("missing", 0)
    /\ contentLM' = None
    /\ UNCHANGED <<remote, files, cacheLM>>

\* check_last_modified, lines 69-70: the HEAD request raises (no
\* connection, timeout, HTTP error status); main logs and re-raises.
ProbeRaises ==
    /\ pc = "check"
    /\ pc' = "done"
    /\ probeRaised' = TRUE
    /\ outcome' = "crashed"
    /\ UNCHANGED <<remote, files, locals, commitResult, files0, writes,
                   getIssued, getRaised, probedHdr, contentLM, cacheLM>>

\* check_last_modified answers, then main lines 183-196 branch on it.
Probe ==
    /\ pc = "check"
    /\ LET current == CheckLastModifiedResult(remote.hdr)
       IN  /\ current_last_modified_epoch' = current
           /\ probedHdr' = remote.hdr
           /\ IF ~Truthy(current)
              THEN pc' = "done" /\ outcome' = "aborted"
              ELSE IF Unchanged(last_modified_epoch, current)
                   THEN pc' = "unchanged" /\ outcome' = outcome
                   ELSE pc' = "download" /\ outcome' = outcome
    /\ UNCHANGED <<remote, files, last_modified_epoch, current_content,
                   new_records, commitResult, files0, writes, getIssued,
                   probeRaised, getRaised, contentLM, cacheLM>>

\* main, line 191: the unchanged path rewrites the report, empty.
SaveEmptyReport ==
    /\ pc = "unchanged"
    /\ pc' = "commit_unchanged"
    /\ reportFile' = ReportOf({}, last_modified_epoch)
    /\ writes' = Append(writes, "report")
    /\ UNCHANGED <<remote, tsFile, cacheFile, locals, outcome, commitResult,
                   files0, getIssued, probeRaised, getRaised, probedHdr,
                   contentLM, cacheLM>>

\* download_blocklist, lines 93-94: the GET raises; main logs and re-raises.
DownloadRaises ==
    /\ pc = "download"
    /\ pc' = "done"
    /\ getIssued' = TRUE
    /\ getRaised' = TRUE
    /\ outcome' = "crashed"
    /\ UNCHANGED <<remote, files, locals, commitResult, files0, writes,
                   probeRaised, probedHdr, contentLM, cacheLM>>

\* download_blocklist answers; main lines 197-218 parse, read the cache
\* and compute the new records.
Download ==
    /\ pc = "download"
    /\ getIssued' = TRUE
    /\ current_content' = SomeText(remote.body)
    /\ contentLM' = ParseHttpDate(remote.hdr)
    /\ IF DownloadFailed(remote.body)
       THEN /\ pc' = "done"
            /\ outcome' = "aborted"
            /\ new_records' = new_records
       ELSE /\ pc' = WriteOrder[1]
            /\ outcome' = outcome
            /\ new_records' = NewRecords(remote.body, LoadCachedContent(cacheFile))
    /\ UNCHANGED <<remote, files, last_modified_epoch,
                   current_last_modified_epoch, commitResult, files0, writes,
                   probeRaised, getRaised, probedHdr, cacheLM>>

\* main, line 221: save_new_records(new_records, current_last_modified_epoch)
SaveNewRecords ==
    /\ pc = "save_report"
    /\ pc' = After(pc)
    /\ reportFile' = ReportOf(new_records, current_last_modified_epoch)
    /\ writes' = Append(writes, "report")
    /\ UNCHANGED <<remote, tsFile, cacheFile, locals, outcome, commitResult,
                   files0, getIssued, probeRaised, getRaised, probedHdr,
                   contentLM, cacheLM>>

\* main, line 224: save_cached_content(current_content)
SaveCachedContent ==
    /\ pc = "save_cache"
    /\ pc' = After(pc)
    /\ cacheFile' = File(CacheData(current_content.v))
    /\ cacheLM' = contentLM
    /\ writes' = Append(writes, "cache")
    /\ UNCHANGED <<remote, tsFile, reportFile, locals, outcome, commitResult,
                   files0, getIssued, probeRaised, getRaised, probedHdr,
                   contentLM>>

\* main, line 225: save_last_modified(current_last_modified_epoch)
SaveLastModified ==
    /\ pc = "save_ts"
    /\ pc' = After(pc)
    /\ tsFile' = File(TsData(last_modified_epoch, current_last_modified_epoch))
    /\ writes' = Append(writes, "ts")
    /\ UNCHANGED <<remote, cacheFile, reportFile, locals, outcome,
                   commitResult, files0, getIssued, probeRaised, getRaised,
                   probedHdr, contentLM, cacheLM>>

FileNames == {"report", "ts", "cache"}

Exists(name) ==
    CASE name = "report" -> reportFile.exists
      [] name = "ts" -> tsFile.exists
      [] name = "cache" -> cacheFile.exists

\* commit_changes: what it ends with, given whether Repo('.') opens, which
\* files git sees as modified or untracked, and whether the commit works.
CommitChangesResult(repoOk, dirty, commitOk) ==
    IF ~repoOk THEN "error"
    ELSE IF \E f \in FileNames : Exists(f) /\ f \in dirty
         THEN IF commitOk /\ \A f \in FileNames : Exists(f)
              THEN "committed"
              ELSE "error"
         ELSE "nochange"

\* How main ends after commit_changes returned: the try/except inside
\* commit_changes keeps every failure from main.
EndAfterCommitUncaught(result, path) == IF result = "error" THEN "crashed" ELSE path

EndAfterCommit(result, path) == path

\* main, line 192: commit on the unchanged path, then return.
CommitUnchanged ==
    /\ pc = "commit_unchanged"
    /\ pc' = "done"
    /\ \E repoOk \in BOOLEAN, dirty \in SUBSET FileNames, commitOk \in BOOLEAN :
          /\ commitResult' = CommitChangesResult(repoOk, dirty, commitOk)
          /\ outcome' = EndAfterCommit(commitResult', "unchanged")
    /\ UNCHANGED <<remote, files, locals, ghosts, cacheLM>>

\* main, line 228: commit on the updated path, then finish.
CommitUpdated ==
    /\ pc = "commit"
    /\ pc' = "done"
    /\ \E repoOk \in BOOLEAN, dirty \in SUBSET FileNames, commitOk \in BOOLEAN :
          /\ commitResult' = CommitChangesResult(repoOk, dirty, commitOk)
          /\ outcome' = EndAfterCommit(commitResult', "updated")
    /\ UNCHANGED <<remote, files, locals, ghosts, cacheLM>>

\* The server replaces the resource.  It is read only by the HEAD and the
\* GET, so a change at any time shows as one right before the HEAD or
\* between the HEAD and the GET.
RemoteChange ==
    /\ pc \in {"check", "download"}
    /\ remote' \in Remotes \ {remote}
    /\ UNCHANGED <<files, pc, locals, outcome, commitResult, ghosts, cacheLM>>

Next ==
    \/ Start
    \/ ProbeRaises
    \/ Probe
    \/ SaveEmptyReport
    \/ DownloadRaises
    \/ Download
    \/ SaveNewRecords
    \/ SaveCachedContent
    \/ SaveLastModified
    \/ CommitUnchanged
    \/ CommitUpdated
    \/ RemoteChange

Spec == Init /\ [][Next]_vars

SpecFresh == InitFresh /\ [][Next]_vars

----------------------------------------------------------------------------
\* Vocabulary of the properties.

Done == pc = "done"

Range(q) == {q[k] : k \in 1..Len(q)}

\* The lines of a text with surrounding whitespace trimmed.
TrimmedLines(t) == {Strip(l) : l \in Range(SplitLines(t))}

\* Trimmed lines of a that are no trimmed line of b, blank lines and
\* lines starting with # left out.
LinesDiff(a, b) ==
    {r \in TrimmedLines(a) : r # <<>> /\ r[1] # "#" /\ r \notin TrimmedLines(b)}

\* The stored timestamp, read from the file the run started with, is
\* absent, invalid, or another one than the probed timestamp.
StoredDiffers ==
    \/ ~files0.ts.exists
    \/ ~IntValid(files0.ts.data)
    \/ IntOf(files0.ts.data) # current_last_modified_epoch.v

\* This run read the stored timestamp and probed the very same one.
StoredEqualsProbed ==
    /\ last_modified_epoch.some
    /\ current_last_modified_epoch.some
    /\ last_modified_epoch = current_last_modified_epoch

\* The run started without timestamp file and without cache file.
FirstRun == ~files0.ts.exists /\ ~files0.cache.exists

\* The GET of this run answered with a body.
Downloaded == getIssued /\ ~getRaised /\ current_content.some

----------------------------------------------------------------------------
\* C1: a run whose stored timestamp equals the probed one never sends the
\* GET, leaves the timestamp file and the cache file as they were, and
\* ends "unchanged" with a report of zero records as its only write.
C1_UnchangedSkipsFetch ==
    StoredEqualsProbed =>
        /\ ~getIssued
        /\ tsFile = files0.ts
        /\ cacheFile = files0.cache
        /\ Done =>
              /\ outcome = "unchanged"
              /\ writes = <<"report">>
              /\ reportFile.exists
              /\ reportFile.records = <<>>
              /\ reportFile.count = 0

C1_Witness ==
    /\ Done
    /\ StoredEqualsProbed
    /\ outcome = "unchanged"
    /\ files0.report = StaleReport
    /\ files0.cache.exists

\* C2: on a run that starts without cache file and downloads, the report
\* written holds no records, whatever the fetched content.
C2_FirstRunReportsNothing ==
    (~files0.cache.exists /\ Downloaded /\ "report" \in Range(writes)) =>
        /\ new_records = {}
        /\ reportFile.records = <<>>
        /\ reportFile.count = 0

C2_Witness ==
    /\ Done
    /\ outcome = "updated"
    /\ ~files0.cache.exists
    /\ ParseRecords(current_content.v) # {}

\* C3 as stated: after a first run that fetched the lines a, b and a
\* comment line, the report lists exactly a and b.
C3_FirstRunReportsFetched ==
    (Done /\ outcome = "updated" /\ FirstRun /\ current_content.v = E2EText) =>
        reportFile.records = << <<"a">>, <<"b">> >>

\* C3 amended: a first run takes no diff; its report lists no record
\* (the placeholder line instead), while the cache file holds the raw
\* fetched text and the timestamp file the probed epoch.
C3_FirstRunReportEmpty ==
    (Done /\ outcome = "updated" /\ FirstRun) =>
        /\ reportFile.records = <<>>
        /\ reportFile.placeholder
        /\ reportFile.epoch = current_last_modified_epoch
        /\ cacheFile = File(current_content.v)
        /\ tsFile = File(Str(current_last_modified_epoch.v))

C3_Witness ==
    /\ Done
    /\ outcome = "updated"
    /\ FirstRun
    /\ current_content.v = E2EText
    /\ cacheFile = File(E2EText)

\* C4 as stated: a probed timestamp, a stored one that is absent, invalid
\* or different, and a GET that answered give an "updated" run whose cache
\* file is the fetched text and whose timestamp file is the probed epoch,
\* for every body.
C4_ChangedRunUpdates ==
    (Done /\ Truthy(current_last_modified_epoch) /\ StoredDiffers /\ Downloaded) =>
        /\ outcome = "updated"
        /\ cacheFile = File(current_content.v)
        /\ tsFile = File(Str(current_last_modified_epoch.v))

\* C4 amended: the same for every non-empty body; an empty body counts as
\* a failed download and the run ends "aborted" with no file written.
C4_ChangedRunUpdatesNonEmpty ==
    (Done /\ Truthy(current_last_modified_epoch) /\ StoredDiffers /\ Downloaded) =>
        IF current_content.v # <<>>
        THEN /\ outcome = "updated"
             /\ cacheFile = File(current_content.v)
             /\ tsFile = File(Str(current_last_modified_epoch.v))
        ELSE /\ outcome = "aborted"
             /\ writes = <<>>

C4_Witness ==
    /\ Done
    /\ outcome = "updated"
    /\ files0.ts = File(<<"x">>)
    /\ files0.cache.exists
    /\ cacheFile # files0.cache
    /\ tsFile = File(Str(current_last_modified_epoch.v))

\* C5: a run that ends because the probe raised, gave no usable
\* timestamp, or the download raised or came back empty, has written no
\* file and attempted no commit: the three files are as at its start.
C5_AbortLeavesStateUnchanged ==
    (Done /\ (\/ probeRaised
              \/ ~Truthy(current_last_modified_epoch)
              \/ getRaised
              \/ (Downloaded /\ current_content.v = <<>>))) =>
        /\ Snapshot = files0
        /\ writes = <<>>
        /\ commitResult = "none"
        /\ outcome \in {"aborted", "crashed"}

C5_Witness ==
    /\ Done
    /\ Downloaded
    /\ current_content.v = <<>>
    /\ files0.ts.exists
    /\ files0.cache.exists
    /\ files0.report.exists

\* C6: when the HEAD request raises, or the Last-Modified header is
\* missing or does not parse, check_last_modified returns None and the
\* run ends early and cleanly, no exception leaving main.
C6_ProbeFailureEndsCleanly ==
    (Done /\ (probeRaised \/ probedHdr.kind \in {"missing", "empty", "garbage"})) =>
        /\ outcome = "aborted"
        /\ current_last_modified_epoch = None

\* What a step taken from a commit position does.
CommitStepKeepsFiles ==
    pc \in {"commit", "commit_unchanged"} =>
        /\ files' = files
        /\ writes' = writes
        /\ outcome' = (IF pc = "commit" THEN "updated" ELSE "unchanged")

\* C7: the commit step starts only when every write of the run is done,
\* changes none of the three files, and, failing or not, lets the run end
\* in the state of its path ("unchanged" or "updated").
C7_CommitIsolated ==
    /\ [](pc = "commit_unchanged" => writes = <<"report">>)
    /\ [](pc = "commit" => Range(writes) = FileNames)
    /\ [](commitResult # "none" => Done /\ outcome \in {"unchanged", "updated"})
    /\ [][CommitStepKeepsFiles]_vars

C7_Witness ==
    /\ Done
    /\ commitResult = "error"
    /\ outcome = "updated"
    /\ reportFile.exists /\ cacheFile.exists /\ tsFile.exists

\* C8 as stated: with a cache file present, the new records of a run are
\* the lines of the fetched text that are not lines of the cache file,
\* blank and # lines left out.
C8_NewRecordsAreDiff ==
    (Downloaded /\ current_content.v # <<>> /\ files0.cache.exists) =>
        new_records = LinesDiff(current_content.v, files0.cache.data)

\* C8 amended: the same for a cache file that is present and not empty,
\* lines compared after trimming whitespace; an empty cache file is taken
\* as a first run and gives no new records.
C8_NewRecordsAreDiffNonEmptyCache ==
    (Downloaded /\ current_content.v # <<>> /\ files0.cache.exists) =>
        IF files0.cache.data # <<>>
        THEN new_records = LinesDiff(current_content.v, files0.cache.data)
        ELSE new_records = {}

C8_Witness ==
    /\ Done
    /\ outcome = "updated"
    /\ files0.cache.exists
    /\ ParseRecords(files0.cache.data) # {}
    /\ new_records # {}
    /\ new_records # ParseRecords(current_content.v)
    /\ reportFile.records = Sorted(new_records)

\* C9: the timestamp file is written at most once per run, only after a
\* download that answered with content, and only after the report and
\* the cache of that run, in this order; so a changed timestamp file
\* always comes with the cache file of the same run.
C9_TimestampWrittenLast ==
    /\ "ts" \in Range(writes) =>
          /\ writes = <<"report", "cache", "ts">>
          /\ Downloaded
          /\ current_content.v # <<>>
          /\ Truthy(current_last_modified_epoch)
    /\ tsFile # files0.ts =>
          /\ "ts" \in Range(writes)
          /\ cacheFile = File(current_content.v)

C9_Witness ==
    /\ pc = "commit"
    /\ writes = <<"report", "cache", "ts">>
    /\ tsFile # files0.ts
    /\ cacheFile # files0.cache

\* C10: between runs that began in an empty directory, the stored
\* timestamp is the Last-Modified of the version the cache file holds.
C10_TimestampDescribesCache ==
    (pc \in {"idle", "done"} /\ tsFile.exists /\ cacheFile.exists) =>
        /\ IntValid(tsFile.data)
        /\ Some(IntOf(tsFile.data)) = cacheLM

====
